---------------------------- MODULE Spec2Model ----------------------------
(***************************************************************************)
(* A model of the stringutils text-algorithms library                      *)
(* (stringutils.cpp / stringutils.h).                                      *)
(*                                                                         *)
(* A std::string is a sequence of char codes (ASCII values).  The source   *)
(* indexes strings and vectors from 0; At(s, k) is the source's s[k].      *)
(* Every function of the library is a single call on its own arguments:    *)
(* fn names the function being called, pc is the position inside the call. *)
(* find_pattern and longest_common_subsequence are modelled loop iteration *)
(* by loop iteration; the other functions are operators that compute the   *)
(* result the way the code does, applied by one action.                    *)
(***************************************************************************)
EXTENDS Integers, Sequences, FiniteSets

VARIABLES
    fn,         \* the library function this call is of
    pc,         \* position inside the call
    input,      \* argument of reverse_string, count_char, remove_duplicates
    c,          \* char argument of count_char
    text,       \* find_pattern's text
    pattern,    \* find_pattern's pattern
    sequence,   \* argument of validate_dna, calculate_gc_content
    str1,       \* first argument of longest_common_subsequence, levenshtein_distance
    str2,       \* second argument of the same
    i,          \* loop index i (find_pattern, longest_common_subsequence)
    j,          \* loop index j (find_pattern, longest_common_subsequence)
    failure,    \* find_pattern's failure table
    positions,  \* find_pattern's result vector
    dp,         \* longest_common_subsequence's table
    result,     \* the value a call returns
    total,      \* caller's running sum of count_char results
    counted     \* the chars the caller has asked count_char about

vars == <<fn, pc, input, c, text, pattern, sequence, str1, str2,
          i, j, failure, positions, dp, result, total, counted>>

args == <<input, text, pattern, sequence, str1, str2>>

----------------------------------------------------------------------------
(* Bounds of the model. *)

MaxTextLen == 6

MaxPatternLen == 4

MaxLcsLen == 3

MaxLevLen == 3

MaxDnaLen == 3

MaxInputLen == 4

MaxPalLen == 4

----------------------------------------------------------------------------
(* Strings. *)

\* s[k] of the source: 0-based.
At(s, k) == s[k + 1]

\* All strings over alphabet A of length at most n.
Strings(A, n) == UNION {[1..k -> A] : k \in 0..n}

\* The chars 'a', 'b' find_pattern is exercised on.
KmpAlphabet == {97, 98}

\* The chars 'A', 'B', 'C' the two table-driven routines are exercised on.
DpAlphabet == {65, 66, 67}

\* "ABCBDAB" and "BDCAB"
FixtureABCBDAB == <<65, 66, 67, 66, 68, 65, 66>>

FixtureBDCAB == <<66, 68, 67, 65, 66>>

\* "ATGCX", "atgc", "ATGC", "GCGC"
FixtureATGCX == <<65, 84, 71, 67, 88>>

Fixtureatgc == <<97, 116, 103, 99>>

FixtureATGC == <<65, 84, 71, 67>>

FixtureGCGC == <<71, 67, 71, 67>>

\* "aabbcc"
Fixtureaabbcc == <<97, 97, 98, 98, 99, 99>>

Max(a, b) == IF a > b THEN a ELSE b

Min(a, b) == IF a < b THEN a ELSE b

\* The chars validate_dna and calculate_gc_content are exercised on:
\* 'A' 'T' 'G' 'C', 'a' 't' 'g' 'c', 'X', 'u', and the byte 0xC3 (the char -61).
DnaAlphabet == {65, 84, 71, 67, 97, 116, 103, 99, 88, 117, -61}

\* The chars 'a', 'A', 'b' the plain text routines are exercised on.
TextAlphabet == {97, 65, 98}

\* The chars is_palindrome is exercised on: 'a', 'A', 'b', '1', ',', ' ' and
\* the byte 0xC3 (the char -61).
PalAlphabet == {97, 65, 98, 49, 44, 32, -61}

\* static_cast<unsigned char>(c), for a char in -128..127
ToUnsignedChar(ch) == ch % 256

\* std::toupper in the "C" locale, on an unsigned char value
ToUpper(u) == IF u \in 97..122 THEN u - 32 ELSE u

\* static_cast<char>(v), for v in 0..255
ToChar(v) == IF v > 127 THEN v - 256 ELSE v

\* static_cast<char>(std::toupper(static_cast<unsigned char>(c)))
UpperChar(ch) == ToChar(ToUpper(ToUnsignedChar(ch)))

\* The values of the variables a call does not use.
Idle(used) ==
    /\ "input" \in used \/ input = <<>>
    /\ "c" \in used \/ c = 0
    /\ "text" \in used \/ text = <<>>
    /\ "pattern" \in used \/ pattern = <<>>
    /\ "sequence" \in used \/ sequence = <<>>
    /\ "str1" \in used \/ str1 = <<>>
    /\ "str2" \in used \/ str2 = <<>>
    /\ i = 0
    /\ j = 0
    /\ failure = <<>>
    /\ positions = <<>>
    /\ dp = <<>>
    /\ result = <<>>
    /\ total = 0
    /\ counted = {}

----------------------------------------------------------------------------
(* find_pattern: Knuth-Morris-Pratt search. *)

\* EdgeCase with the length comparison left out.
EdgeCaseNoLength(t, p) == p = <<>> \/ t = <<>>

\* if (pattern.empty() || text.empty() || pattern.length() > text.length())
EdgeCase(t, p) == p = <<>> \/ t = <<>> \/ Len(p) > Len(t)

\* j = failure[j - 1]
FallBack(f, jj) == At(f, jj - 1)

\* if (a == pattern[j]) ++j;
Advance(a, p, jj) == IF a = At(p, jj) THEN jj + 1 ELSE jj

\* the edge cases return the empty positions vector
find_pattern_edge ==
    /\ fn = "find_pattern" /\ pc = "start"
    /\ EdgeCase(text, pattern)
    /\ positions' = <<>>
    /\ pc' = "done"
    /\ UNCHANGED <<fn, args, c, i, j, failure, dp, result, total, counted>>

\* build_failure_function is entered: failure(pattern.length(), 0), j = 0, i = 1
find_pattern_begin ==
    /\ fn = "find_pattern" /\ pc = "start"
    /\ ~EdgeCase(text, pattern)
    /\ positions' = <<>>
    /\ failure' = [k \in 1..Len(pattern) |-> 0]
    /\ j' = 0
    /\ i' = 1
    /\ pc' = "build"
    /\ UNCHANGED <<fn, args, c, dp, result, total, counted>>

\* while (j > 0 && pattern[i] != pattern[j]) j = failure[j - 1];
build_fall_back ==
    /\ pc = "build"
    /\ i < Len(pattern)
    /\ j > 0 /\ At(pattern, i) # At(pattern, j)
    /\ j' = FallBack(failure, j)
    /\ UNCHANGED <<fn, pc, args, c, i, failure, positions, dp, result, total, counted>>

\* if (pattern[i] == pattern[j]) ++j;  failure[i] = j;  ++i
build_advance ==
    /\ pc = "build"
    /\ i < Len(pattern)
    /\ ~(j > 0 /\ At(pattern, i) # At(pattern, j))
    /\ j' = Advance(At(pattern, i), pattern, j)
    /\ failure' = [failure EXCEPT ![i + 1] = j']
    /\ i' = i + 1
    /\ UNCHANGED <<fn, pc, args, c, positions, dp, result, total, counted>>

\* the table is returned; the scan starts with j = 0, i = 0
build_return ==
    /\ pc = "build"
    /\ i >= Len(pattern)
    /\ j' = 0
    /\ i' = 0
    /\ pc' = "scan"
    /\ UNCHANGED <<fn, args, c, failure, positions, dp, result, total, counted>>

\* while (j > 0 && text[i] != pattern[j]) j = failure[j - 1];
scan_fall_back ==
    /\ pc = "scan"
    /\ i < Len(text)
    /\ j > 0 /\ At(text, i) # At(pattern, j)
    /\ j' = FallBack(failure, j)
    /\ UNCHANGED <<fn, pc, args, c, i, failure, positions, dp, result, total, counted>>

\* AfterMatch restarting the pattern from its first char: overlaps are lost.
AfterMatchReset(f, jj) == 0

\* AfterMatch leaving j at pattern.length().
AfterMatchStay(f, jj) == jj

\* the value of j after a full match: j = failure[j - 1]
AfterMatch(f, jj) == FallBack(f, jj)

\* if (text[i] == pattern[j]) ++j;
\* if (j == pattern.length()) { positions.push_back(i - pattern.length() + 1);
\*                              j = failure[j - 1]; }   ++i
scan_advance ==
    /\ pc = "scan"
    /\ i < Len(text)
    /\ ~(j > 0 /\ At(text, i) # At(pattern, j))
    /\ LET j1 == Advance(At(text, i), pattern, j)
       IN  IF j1 = Len(pattern)
           THEN /\ positions' = Append(positions, i - Len(pattern) + 1)
                /\ j' = AfterMatch(failure, j1)
           ELSE /\ positions' = positions
                /\ j' = j1
    /\ i' = i + 1
    /\ UNCHANGED <<fn, pc, args, c, failure, dp, result, total, counted>>

\* return positions;
find_pattern_return ==
    /\ pc = "scan"
    /\ i >= Len(text)
    /\ pc' = "done"
    /\ UNCHANGED <<fn, args, c, i, j, failure, positions, dp, result, total, counted>>

InitFind ==
    /\ fn = "find_pattern"
    /\ pc = "start"
    /\ text \in Strings(KmpAlphabet, MaxTextLen)
    /\ pattern \in Strings(KmpAlphabet, MaxPatternLen)
    /\ Idle({"text", "pattern"})

NextFind ==
    \/ find_pattern_edge
    \/ find_pattern_begin
    \/ build_fall_back
    \/ build_advance
    \/ build_return
    \/ scan_fall_back
    \/ scan_advance
    \/ find_pattern_return

SpecFind == InitFind /\ [][NextFind]_vars

\* A call that has a next statement executes it.
SpecFindFair == SpecFind /\ WF_vars(NextFind)

----------------------------------------------------------------------------
(* Claims about find_pattern. *)

\* pattern occurs in text at offset p
OccursAt(t, p, off) == \A k \in 0..(Len(p) - 1) : At(t, off + k) = At(p, k)

\* every offset at which pattern occurs in text
MatchOffsets(t, p) == {off \in 0..(Len(t) - Len(p)) : OccursAt(t, p, off)}

StrictlyAscending(s) == \A k \in 1..(Len(s) - 1) : s[k] < s[k + 1]

Elements(s) == {s[k] : k \in DOMAIN s}

\* C1: for a non-empty pattern no longer than the text, find_pattern returns
\* exactly the offsets at which the pattern occurs, each once, in strictly
\* ascending order, overlapping occurrences included.
C1_AllOffsets ==
    (fn = "find_pattern" /\ pc = "done" /\ pattern # <<>> /\ Len(pattern) <= Len(text))
        => /\ StrictlyAscending(positions)
           /\ Elements(positions) = MatchOffsets(text, pattern)

\* C1 witness: a finished search that reported two overlapping occurrences.
C1_Witness ==
    /\ fn = "find_pattern" /\ pc = "done"
    /\ Len(positions) >= 2
    /\ positions[2] - positions[1] < Len(pattern)
    /\ Len(pattern) >= 2

\* C2: when the pattern is empty, the text is empty or the pattern is longer
\* than the text, find_pattern returns at once, with the empty list.
C2_EdgeCasesEmpty ==
    [][(fn = "find_pattern" /\ pc = "start"
          /\ (pattern = <<>> \/ text = <<>> \/ Len(pattern) > Len(text)))
        => (pc' = "done" /\ positions' = <<>>)]_vars

\* C2 witness: a call with a non-empty pattern longer than a non-empty text
\* has returned the empty list.
C2_Witness ==
    /\ fn = "find_pattern" /\ pc = "done"
    /\ text # <<>> /\ Len(pattern) > Len(text)
    /\ positions = <<>>

----------------------------------------------------------------------------
(* longest_common_subsequence.  The table dp is indexed dp[i][j] with      *)
(* i in 0..m and j in 0..n; the source's str1[i-1] is str1[i] here.        *)

\* LcsCell taking the smaller neighbour.
LcsCellMin(d, s1, s2, ii, jj) ==
    IF s1[ii] = s2[jj]
    THEN d[ii - 1][jj - 1] + 1
    ELSE Min(d[ii - 1][jj], d[ii][jj - 1])

\* the body of the table loops
LcsCell(d, s1, s2, ii, jj) ==
    IF s1[ii] = s2[jj]
    THEN d[ii - 1][jj - 1] + 1
    ELSE Max(d[ii - 1][jj], d[ii][jj - 1])

RECURSIVE LcsFill(_, _, _, _, _)
\* for (i = 1; i <= m; i++) for (j = 1; j <= n; j++) dp[i][j] = ...
LcsFill(d, s1, s2, ii, jj) ==
    IF ii > Len(s1) THEN d
    ELSE IF jj > Len(s2) THEN LcsFill(d, s1, s2, ii + 1, 1)
    ELSE LcsFill([d EXCEPT ![ii][jj] = LcsCell(d, s1, s2, ii, jj)], s1, s2, ii, jj + 1)

\* dp(m + 1, vector<int>(n + 1, 0)) after the two loops
LcsTable(s1, s2) ==
    LcsFill([a \in 0..Len(s1) |-> [b \in 0..Len(s2) |-> 0]], s1, s2, 1, 1)

\* PreferUp moving up when the two neighbours are equal.
PreferUpOnTie(d, ii, jj) == d[ii - 1][jj] >= d[ii][jj - 1]

\* else if (dp[i-1][j] > dp[i][j-1])
PreferUp(d, ii, jj) == d[ii - 1][jj] > d[ii][jj - 1]

\* the table is filled; backtracking starts at i = m, j = n with result empty
lcs_fill ==
    /\ fn = "longest_common_subsequence" /\ pc = "start"
    /\ dp' = LcsTable(str1, str2)
    /\ result' = <<>>
    /\ i' = Len(str1)
    /\ j' = Len(str2)
    /\ pc' = "backtrack"
    /\ UNCHANGED <<fn, args, c, failure, positions, total, counted>>

\* if (str1[i-1] == str2[j-1]) { result = str1[i-1] + result; i--; j--; }
lcs_take ==
    /\ pc = "backtrack"
    /\ i > 0 /\ j > 0
    /\ str1[i] = str2[j]
    /\ result' = <<str1[i]>> \o result
    /\ i' = i - 1
    /\ j' = j - 1
    /\ UNCHANGED <<fn, pc, args, c, failure, positions, dp, total, counted>>

\* else if (dp[i-1][j] > dp[i][j-1]) i--;
lcs_up ==
    /\ pc = "backtrack"
    /\ i > 0 /\ j > 0
    /\ str1[i] # str2[j]
    /\ PreferUp(dp, i, j)
    /\ i' = i - 1
    /\ UNCHANGED <<fn, pc, args, c, j, failure, positions, dp, result, total, counted>>

\* else j--;
lcs_left ==
    /\ pc = "backtrack"
    /\ i > 0 /\ j > 0
    /\ str1[i] # str2[j]
    /\ ~PreferUp(dp, i, j)
    /\ j' = j - 1
    /\ UNCHANGED <<fn, pc, args, c, i, failure, positions, dp, result, total, counted>>

\* the while loop ends; return result;
lcs_return ==
    /\ pc = "backtrack"
    /\ ~(i > 0 /\ j > 0)
    /\ pc' = "done"
    /\ UNCHANGED <<fn, args, c, i, j, failure, positions, dp, result, total, counted>>

LcsInputs ==
    (Strings(DpAlphabet, MaxLcsLen) \X Strings(DpAlphabet, MaxLcsLen))
        \cup {<<FixtureABCBDAB, FixtureBDCAB>>}

InitLcs ==
    /\ fn = "longest_common_subsequence"
    /\ pc = "start"
    /\ \E p \in LcsInputs : str1 = p[1] /\ str2 = p[2]
    /\ Idle({"str1", "str2"})

NextLcs ==
    \/ lcs_fill
    \/ lcs_take
    \/ lcs_up
    \/ lcs_left
    \/ lcs_return

SpecLcs == InitLcs /\ [][NextLcs]_vars

----------------------------------------------------------------------------
(* Claims about longest_common_subsequence. *)

\* the backtracking is at a cell whose chars differ and whose upper and left
\* neighbours hold the same value
AtTie ==
    /\ fn = "longest_common_subsequence" /\ pc = "backtrack"
    /\ i > 0 /\ j > 0
    /\ str1[i] # str2[j]
    /\ dp[i - 1][j] = dp[i][j - 1]

RECURSIVE Pick(_, _, _)
\* the chars of t at the positions S that are >= k, in the order of t
Pick(t, S, k) ==
    IF k > Len(t) THEN <<>>
    ELSE IF k \in S THEN <<t[k]>> \o Pick(t, S, k + 1)
    ELSE Pick(t, S, k + 1)

Subsequences(t) == {Pick(t, S, 1) : S \in SUBSET (1..Len(t))}

CommonSubsequences(a, b) == Subsequences(a) \cap Subsequences(b)

\* C4: the string returned is a subsequence of both arguments, no common
\* subsequence is longer, and its length is dp[m][n].
C4_LcsOptimal ==
    (fn = "longest_common_subsequence" /\ pc = "done")
        => /\ result \in CommonSubsequences(str1, str2)
           /\ \A x \in CommonSubsequences(str1, str2) : Len(x) <= Len(result)
           /\ Len(result) = dp[Len(str1)][Len(str2)]

\* C4 witness: the call on "ABCBDAB" and "BDCAB" has returned a string of
\* length 4.
C4_Witness ==
    /\ fn = "longest_common_subsequence" /\ pc = "done"
    /\ str1 = FixtureABCBDAB /\ str2 = FixtureBDCAB
    /\ Len(result) = 4

----------------------------------------------------------------------------
(* levenshtein_distance. *)

\* LevCell without the substitution neighbour dp[i-1][j-1].
LevCellNoSubstitute(d, s1, s2, ii, jj) ==
    IF s1[ii] = s2[jj]
    THEN d[ii - 1][jj - 1]
    ELSE 1 + Min(d[ii - 1][jj], d[ii][jj - 1])

\* the body of the table loops
LevCell(d, s1, s2, ii, jj) ==
    IF s1[ii] = s2[jj]
    THEN d[ii - 1][jj - 1]
    ELSE 1 + Min(Min(d[ii - 1][jj], d[ii][jj - 1]), d[ii - 1][jj - 1])

\* dp[i][0] = i for all i, then dp[0][j] = j for all j
LevBase(s1, s2) ==
    [a \in 0..Len(s1) |-> [b \in 0..Len(s2) |->
        IF a = 0 THEN b ELSE IF b = 0 THEN a ELSE 0]]

RECURSIVE LevFill(_, _, _, _, _)
\* for (i = 1; i <= m; i++) for (j = 1; j <= n; j++) dp[i][j] = ...
LevFill(d, s1, s2, ii, jj) ==
    IF ii > Len(s1) THEN d
    ELSE IF jj > Len(s2) THEN LevFill(d, s1, s2, ii + 1, 1)
    ELSE LevFill([d EXCEPT ![ii][jj] = LevCell(d, s1, s2, ii, jj)], s1, s2, ii, jj + 1)

\* return dp[m][n];
levenshtein_distance(s1, s2) ==
    LevFill(LevBase(s1, s2), s1, s2, 1, 1)[Len(s1)][Len(s2)]

lev_call ==
    /\ fn = "levenshtein_distance" /\ pc = "start"
    /\ result' = levenshtein_distance(str1, str2)
    /\ pc' = "done"
    /\ UNCHANGED <<fn, args, c, i, j, failure, positions, dp, total, counted>>

InitLev ==
    /\ fn = "levenshtein_distance"
    /\ pc = "start"
    /\ str1 \in Strings(DpAlphabet, MaxLevLen)
    /\ str2 \in Strings(DpAlphabet, MaxLevLen)
    /\ Idle({"str1", "str2"})

NextLev == lev_call

SpecLev == InitLev /\ [][NextLev]_vars

----------------------------------------------------------------------------
(* Claims about levenshtein_distance. *)

\* s with its k-th char deleted
DeleteAt(s, k) == SubSeq(s, 1, k - 1) \o SubSeq(s, k + 1, Len(s))

\* s with char x inserted so that it becomes the k-th char
InsertAt(s, k, x) == SubSeq(s, 1, k - 1) \o <<x>> \o SubSeq(s, k, Len(s))

\* the strings one single-character edit away from s, over the chars A and
\* no longer than n
OneEdit(s, A, n) ==
    {DeleteAt(s, k) : k \in 1..Len(s)}
        \cup {[s EXCEPT ![k] = x] : k \in 1..Len(s), x \in A}
        \cup (IF Len(s) < n THEN {InsertAt(s, k, x) : k \in 1..(Len(s) + 1), x \in A}
                             ELSE {})

RECURSIVE EditsFrom(_, _, _, _, _, _)
\* the number of rounds of single edits after which b is first reached, when
\* seen are the strings reached in k rounds and new those first reached in
\* round k
EditsFrom(seen, new, k, b, A, n) ==
    IF b \in seen THEN k
    ELSE LET next == (UNION {OneEdit(s, A, n) : s \in new}) \ seen
         IN  EditsFrom(seen \cup next, next, k + 1, b, A, n)

\* the minimum number of single-character edits turning a into b, over the
\* edit scripts whose strings are at most one char longer than the longer
\* of a and b
MinEdits(a, b) == EditsFrom({a}, {a}, 0, b, DpAlphabet, Max(Len(a), Len(b)) + 1)

\* C5: levenshtein_distance(a, b) is the minimum number of single-character
\* insertions, deletions and substitutions that turn a into b; it is never
\* negative, and it is 0 when a and b are the same string.
C5_MinimumEdits ==
    (fn = "levenshtein_distance" /\ pc = "done")
        => /\ result = MinEdits(str1, str2)
           /\ result >= 0
           /\ (str1 = str2 => result = 0)

\* C5 witness: a returned distance that takes a substitution and an
\* insertion or deletion, between two non-empty strings.
C5_Witness ==
    /\ fn = "levenshtein_distance" /\ pc = "done"
    /\ str1 # <<>> /\ str2 # <<>>
    /\ Len(str1) # Len(str2)
    /\ result >= 2
    /\ result > Len(str1) - Len(str2)
    /\ result > Len(str2) - Len(str1)
    /\ result < Max(Len(str1), Len(str2))

----------------------------------------------------------------------------
(* validate_dna and calculate_gc_content. *)

\* IsNucleotide comparing the char itself, with no conversion to upper case.
IsNucleotideNoUpper(ch) == ch = 65 \/ ch = 84 \/ ch = 71 \/ ch = 67

\* the lambda of validate_dna: upper_c == 'A' || 'T' || 'G' || 'C'
IsNucleotide(ch) ==
    LET upper_c == UpperChar(ch)
    IN  upper_c = 65 \/ upper_c = 84 \/ upper_c = 71 \/ upper_c = 67

\* the lambda of calculate_gc_content: upper_c == 'G' || upper_c == 'C'
IsGC(ch) ==
    LET upper_c == UpperChar(ch)
    IN  upper_c = 71 \/ upper_c = 67

RECURSIVE AllOfNucleotide(_, _)
\* std::all_of(sequence.begin(), sequence.end(), lambda), from position k
AllOfNucleotide(s, k) ==
    IF k > Len(s) THEN TRUE
    ELSE IF ~IsNucleotide(s[k]) THEN FALSE
    ELSE AllOfNucleotide(s, k + 1)

validate_dna(s) == IF s = <<>> THEN TRUE ELSE AllOfNucleotide(s, 1)

RECURSIVE CountIfGC(_, _)
\* std::count_if(sequence.begin(), sequence.end(), lambda), from position k
CountIfGC(s, k) ==
    IF k > Len(s) THEN 0
    ELSE (IF IsGC(s[k]) THEN 1 ELSE 0) + CountIfGC(s, k + 1)

\* A double is modelled by the exact quotient num/den it stands for.
ToDouble(n) == [num |-> n, den |-> 1]

DoubleDiv(x, y) == [num |-> x.num * y.den, den |-> x.den * y.num]

DoubleMul(x, y) == [num |-> x.num * y.num, den |-> x.den * y.den]

\* calculate_gc_content dividing the two integers before the conversion.
calculate_gc_content_truncating(s) ==
    IF s = <<>> THEN ToDouble(0)
    ELSE ToDouble((CountIfGC(s, 1) \div Len(s)) * 100)

\* (static_cast<double>(gc_count) / static_cast<double>(sequence.length())) * 100.0
calculate_gc_content(s) ==
    IF s = <<>> THEN ToDouble(0)
    ELSE LET gc_count == CountIfGC(s, 1)
         IN  DoubleMul(DoubleDiv(ToDouble(gc_count), ToDouble(Len(s))), ToDouble(100))

validate_dna_call ==
    /\ fn = "validate_dna" /\ pc = "start"
    /\ result' = validate_dna(sequence)
    /\ pc' = "done"
    /\ UNCHANGED <<fn, args, c, i, j, failure, positions, dp, total, counted>>

calculate_gc_content_call ==
    /\ fn = "calculate_gc_content" /\ pc = "start"
    /\ result' = calculate_gc_content(sequence)
    /\ pc' = "done"
    /\ UNCHANGED <<fn, args, c, i, j, failure, positions, dp, total, counted>>

InitDna ==
    /\ fn \in {"validate_dna", "calculate_gc_content"}
    /\ pc = "start"
    /\ sequence \in Strings(DnaAlphabet, MaxDnaLen)
                    \cup {FixtureATGCX, Fixtureatgc, FixtureATGC, FixtureGCGC}
    /\ Idle({"sequence"})

NextDna ==
    \/ validate_dna_call
    \/ calculate_gc_content_call

SpecDna == InitDna /\ [][NextDna]_vars

----------------------------------------------------------------------------
(* Claims about validate_dna and calculate_gc_content. *)

\* 'A' 'T' 'G' 'C' 'a' 't' 'g' 'c'
NucleotideChars == {65, 84, 71, 67, 97, 116, 103, 99}

\* 'G' 'C' 'g' 'c'
GCChars == {71, 67, 103, 99}

\* C6: validate_dna returns true exactly when every char is a nucleotide
\* letter in either case; so true for the empty sequence.
C6_ValidIffNucleotides ==
    (fn = "validate_dna" /\ pc = "done")
        => /\ result = (\A k \in DOMAIN sequence : sequence[k] \in NucleotideChars)
           /\ (sequence = <<>> => result = TRUE)

\* C6 witness: a mixed-case nucleotide string was found valid.
C6_Witness ==
    /\ fn = "validate_dna" /\ pc = "done"
    /\ result = TRUE
    /\ \E k \in DOMAIN sequence : sequence[k] \in {97, 116, 103, 99}
    /\ \E k \in DOMAIN sequence : sequence[k] \in {65, 84, 71, 67}

\* the number of positions of s holding G or C in either case
NumGC(s) == Cardinality({k \in DOMAIN s : s[k] \in GCChars})

\* C7: calculate_gc_content returns 0 for the empty sequence and never
\* divides by zero; for a non-empty sequence it returns the exact quotient
\* 100 * k / len, k the number of G or C chars in either case; the value is
\* in [0, 100], is 0 exactly when k = 0 and, for a non-empty sequence, 100
\* exactly when k = len.
C7_GcContent ==
    (fn = "calculate_gc_content" /\ pc = "done")
        => /\ result.den > 0
           /\ (sequence = <<>> => result.num = 0)
           /\ (sequence # <<>> =>
                  result.num * Len(sequence) = 100 * NumGC(sequence) * result.den)
           /\ 0 <= result.num /\ result.num <= 100 * result.den
           /\ (result.num = 0) = (NumGC(sequence) = 0)
           /\ (sequence # <<>> =>
                  ((result.num = 100 * result.den) = (NumGC(sequence) = Len(sequence))))

\* C7 witness: a returned percentage that is not a whole number, for a
\* sequence that is not valid DNA.
C7_Witness ==
    /\ fn = "calculate_gc_content" /\ pc = "done"
    /\ \E k \in DOMAIN sequence : sequence[k] \notin NucleotideChars
    /\ result.num % result.den # 0

----------------------------------------------------------------------------
(* reverse_string, remove_duplicates, count_char. *)

RECURSIVE ReverseRange(_, _, _)
\* std::reverse on positions lo..hi: swap the ends and move inwards
ReverseRange(s, lo, hi) ==
    IF lo >= hi THEN s
    ELSE ReverseRange([s EXCEPT ![lo] = s[hi], ![hi] = s[lo]], lo + 1, hi - 1)

\* reverse_string writing the reversed chars over the copy but stopping one
\* short, so that the last char keeps its value.
reverse_string_keep_last(s) ==
    [k \in 1..Len(s) |-> IF k < Len(s) THEN s[Len(s) - k + 1] ELSE s[k]]

\* result = input; std::reverse(result.begin(), result.end()); return result;
reverse_string(s) == IF s = <<>> THEN s ELSE ReverseRange(s, 1, Len(s))

RECURSIVE AdjacentDedup(_, _, _)
\* keeps a char unless it equals the char just before it
AdjacentDedup(s, k, res) ==
    IF k > Len(s) THEN res
    ELSE IF k > 1 /\ s[k] = s[k - 1] THEN AdjacentDedup(s, k + 1, res)
    ELSE AdjacentDedup(s, k + 1, Append(res, s[k]))

\* remove_duplicates that only drops a char repeated next to itself.
remove_duplicates_adjacent(s) == AdjacentDedup(s, 1, <<>>)

RECURSIVE DedupLoop(_, _, _, _)
\* for (char c : input) if (seen.find(c) == seen.end()) { seen[c] = true; result += c; }
DedupLoop(s, k, seen, res) ==
    IF k > Len(s) THEN res
    ELSE IF s[k] \notin seen THEN DedupLoop(s, k + 1, seen \cup {s[k]}, Append(res, s[k]))
    ELSE DedupLoop(s, k + 1, seen, res)

remove_duplicates(s) == DedupLoop(s, 1, {}, <<>>)

RECURSIVE StdCount(_, _, _)
\* std::count(input.begin(), input.end(), c), from position k
StdCount(s, ch, k) ==
    IF k > Len(s) THEN 0
    ELSE (IF s[k] = ch THEN 1 ELSE 0) + StdCount(s, ch, k + 1)

RECURSIVE CountNoCase(_, _, _)
CountNoCase(s, ch, k) ==
    IF k > Len(s) THEN 0
    ELSE (IF UpperChar(s[k]) = UpperChar(ch) THEN 1 ELSE 0) + CountNoCase(s, ch, k + 1)

\* count_char comparing the chars without regard to case.
count_char_no_case(s, ch) == IF s = <<>> THEN 0 ELSE CountNoCase(s, ch, 1)

\* static_cast<int>(std::count(input.begin(), input.end(), c))
count_char(s, ch) == IF s = <<>> THEN 0 ELSE StdCount(s, ch, 1)

\* result = reverse_string(input)
reverse_string_call ==
    /\ fn = "reverse_string" /\ pc = "start"
    /\ result' = reverse_string(input)
    /\ pc' = "reversed"
    /\ UNCHANGED <<fn, args, c, i, j, failure, positions, dp, total, counted>>

\* the caller reverses what the first call returned
reverse_string_again ==
    /\ fn = "reverse_string" /\ pc = "reversed"
    /\ result' = reverse_string(result)
    /\ pc' = "reversed twice"
    /\ UNCHANGED <<fn, args, c, i, j, failure, positions, dp, total, counted>>

remove_duplicates_call ==
    /\ fn = "remove_duplicates" /\ pc = "start"
    /\ result' = remove_duplicates(input)
    /\ pc' = "done"
    /\ UNCHANGED <<fn, args, c, i, j, failure, positions, dp, total, counted>>

\* the caller asks for the count of one more char and adds it to its total
count_char_call ==
    /\ fn = "count_char" /\ pc \in {"start", "counting"}
    /\ \E ch \in TextAlphabet \ counted :
          /\ c' = ch
          /\ result' = count_char(input, ch)
          /\ total' = total + result'
          /\ counted' = counted \cup {ch}
    /\ pc' = "counting"
    /\ UNCHANGED <<fn, args, i, j, failure, positions, dp>>

InitText ==
    /\ fn \in {"reverse_string", "remove_duplicates", "count_char"}
    /\ pc = "start"
    /\ \/ input \in Strings(TextAlphabet, MaxInputLen)
       \/ fn = "remove_duplicates" /\ input = Fixtureaabbcc
    /\ Idle({"input"})

NextText ==
    \/ reverse_string_call
    \/ reverse_string_again
    \/ remove_duplicates_call
    \/ count_char_call

SpecText == InitText /\ [][NextText]_vars

----------------------------------------------------------------------------
(* Claims about remove_duplicates, reverse_string and count_char. *)

\* the positions of s whose char occurs at no earlier position
FirstOccurrences(s) == {k \in DOMAIN s : \A l \in 1..(k - 1) : s[l] # s[k]}

\* C8: remove_duplicates(s) holds every distinct char of s exactly once and
\* no other char, in the order of the chars' first occurrences in s.
C8_FirstOccurrences ==
    (fn = "remove_duplicates" /\ pc = "done")
        => /\ Elements(result) = Elements(input)
           /\ \A k, l \in DOMAIN result : k # l => result[k] # result[l]
           /\ result = Pick(input, FirstOccurrences(input), 1)

\* C8 witness: a char that came back after another char was dropped.
C8_Witness ==
    /\ fn = "remove_duplicates" /\ pc = "done"
    /\ \E k \in 3..Len(input) : input[k] = input[k - 2] /\ input[k] # input[k - 1]
    /\ Len(result) = 2

\* C9: reverse_string returns a string of the same length with the chars in
\* reverse order, reversing the returned string again gives the input back,
\* and the input itself is never changed.
C9_ReverseTwice ==
    /\ [](fn = "reverse_string" /\ pc = "reversed"
            => /\ Len(result) = Len(input)
               /\ \A k \in DOMAIN input : result[k] = input[Len(input) - k + 1])
    /\ [](fn = "reverse_string" /\ pc = "reversed twice" => result = input)
    /\ [][input' = input]_vars

\* C9 witness: a string that is not its own reverse came back from the
\* second reversal.
C9_Witness ==
    /\ fn = "reverse_string" /\ pc = "reversed twice"
    /\ Len(input) >= 3
    /\ input[1] # input[Len(input)]
    /\ result = input

\* C10: count_char(s, c) is the number of positions of s holding exactly c,
\* 0 for the empty s, and the counts of the distinct chars of s add up to
\* the length of s.
C10_CountsSumToLength ==
    fn = "count_char"
        => /\ pc = "counting" =>
                /\ result = Cardinality({k \in DOMAIN input : input[k] = c})
                /\ (input = <<>> => result = 0)
           /\ Elements(input) \subseteq counted => total = Len(input)

\* C10 witness: exactly the distinct chars of a string holding a letter in
\* both cases have been counted.
C10_Witness ==
    /\ fn = "count_char" /\ pc = "counting"
    /\ counted = Elements(input)
    /\ {97, 65} \subseteq counted
    /\ total = Len(input)

----------------------------------------------------------------------------
(* is_palindrome.  The loop hands each plain char to std::isalnum and      *)
(* std::tolower with no conversion to unsigned char.  For a char in 0..127 *)
(* the two are the ASCII classification and case mapping.  For a negative  *)
(* char (a byte >= 0x80 where char is signed) the calls are undefined: ub  *)
(* gives, for each such char of the input, what the two calls yield.       *)

\* what std::tolower may yield for a negative char: the char itself, or the
\* char 32 above it for a byte in 0xC0..0xDE (a Latin-1 upper-case letter)
LowerOutcomes(ch) ==
    {ch} \cup (IF ToUnsignedChar(ch) \in 192..222 THEN {ch + 32} ELSE {})

\* the negative chars of s
NegativeChars(s) == {s[k] : k \in DOMAIN s} \cap (-128..-1)

\* every way the undefined calls on the negative chars of s can turn out
UBOutcomes(s) ==
    LET neg == NegativeChars(s)
        low == UNION {LowerOutcomes(ch) : ch \in neg}
    IN  {f \in [neg -> [alnum : BOOLEAN, lower : low]] :
            \A ch \in neg : f[ch].lower \in LowerOutcomes(ch)}

\* std::isalnum(c)
IsAlnum(ch, ub) ==
    IF ch < 0 THEN ub[ch].alnum
    ELSE ch \in 48..57 \/ ch \in 65..90 \/ ch \in 97..122

\* std::tolower(c)
ToLower(ch, ub) ==
    IF ch < 0 THEN ub[ch].lower
    ELSE IF ch \in 65..90 THEN ch + 32 ELSE ch

RECURSIVE CleanLoop(_, _, _, _)
\* for (char c : input) if (std::isalnum(c)) cleaned += std::tolower(c);
CleanLoop(s, k, cleaned, ub) ==
    IF k > Len(s) THEN cleaned
    ELSE IF IsAlnum(s[k], ub)
         THEN CleanLoop(s, k + 1, Append(cleaned, ToLower(s[k], ub)), ub)
         ELSE CleanLoop(s, k + 1, cleaned, ub)

\* reversed = cleaned; std::reverse(...); return cleaned == reversed;
is_palindrome(s, ub) ==
    LET cleaned == CleanLoop(s, 1, <<>>, ub)
        reversed == ReverseRange(cleaned, 1, Len(cleaned))
    IN  cleaned = reversed

is_palindrome_call ==
    /\ fn = "is_palindrome" /\ pc = "start"
    /\ \E ub \in UBOutcomes(input) : result' = is_palindrome(input, ub)
    /\ pc' = "done"
    /\ UNCHANGED <<fn, args, c, i, j, failure, positions, dp, total, counted>>

InitPal ==
    /\ fn = "is_palindrome"
    /\ pc = "start"
    /\ input \in Strings(PalAlphabet, MaxPalLen)
    /\ Idle({"input"})

NextPal == is_palindrome_call

SpecPal == InitPal /\ [][NextPal]_vars

----------------------------------------------------------------------------
(* Claims about is_palindrome. *)

\* the ASCII letters and digits
AlnumChars == (48..57) \cup (65..90) \cup (97..122)

\* s with every char that is no ASCII letter or digit deleted and the rest
\* in lower case
Stripped(s) ==
    LET kept == Pick(s, {k \in DOMAIN s : s[k] \in AlnumChars}, 1)
    IN  [k \in DOMAIN kept |-> IF kept[k] \in 65..90 THEN kept[k] + 32 ELSE kept[k]]

\* t reads the same from both ends
IsMirror(t) == \A k \in DOMAIN t : t[k] = t[Len(t) - k + 1]

\* C11: is_palindrome(s) is true exactly when s, with its non-alphanumeric
\* chars deleted and the rest in lower case, equals its own reverse; so it
\* is true for a sequence holding no alphanumeric char.
C11_PalindromeIff ==
    (fn = "is_palindrome" /\ pc = "done")
        => result = IsMirror(Stripped(input))

\* The statement of C11 for the sequences of chars in 0..127 only.
PalindromeIffOnAscii ==
    (fn = "is_palindrome" /\ pc = "done" /\ NegativeChars(input) = {})
        => result = IsMirror(Stripped(input))

----------------------------------------------------------------------------
(* Termination and index bounds of find_pattern. *)

\* the next step of the call reads pattern[j]: a loop body is about to run
ReadsPattern ==
    /\ fn = "find_pattern"
    /\ \/ pc = "build" /\ i < Len(pattern)
       \/ pc = "scan" /\ i < Len(text)

\* the next step of the call is a fallback j = failure[j - 1] on a mismatch
FallsBack ==
    /\ ReadsPattern
    /\ j > 0
    /\ \/ pc = "build" /\ At(pattern, i) # At(pattern, j)
       \/ pc = "scan" /\ At(text, i) # At(pattern, j)

\* the table has an entry for each pattern position and entry k is in 0..k;
\* j is inside the pattern whenever pattern[j] is read
IndexBounds ==
    (fn = "find_pattern" /\ pc \in {"build", "scan"})
        => /\ Len(failure) = Len(pattern)
           /\ \A k \in 0..(Len(pattern) - 1) :
                 0 <= At(failure, k) /\ At(failure, k) <= k
           /\ ReadsPattern => (0 <= j /\ j < Len(pattern))

\* C12: every call of find_pattern returns; each failure-table entry k is in
\* 0..k; a fallback on a mismatch, in the table construction and in the scan,
\* makes j strictly smaller and not negative; the fallback after a full match
\* takes j below the pattern length; and 0 <= j < len(pattern) whenever
\* pattern[j] is read.
C12_TerminatesInBounds ==
    /\ []IndexBounds
    /\ [][FallsBack => (0 <= j' /\ j' < j)]_vars
    /\ [][(fn = "find_pattern" /\ pc = "scan" /\ Len(positions') > Len(positions))
            => (0 <= j' /\ j' < Len(pattern))]_vars
    /\ <>(pc = "done")

\* C12 witness: a call has returned after at least two full matches, with a
\* failure table holding an entry of 2 or more.
C12_Witness ==
    /\ fn = "find_pattern" /\ pc = "done"
    /\ Len(positions) >= 2
    /\ \E k \in 0..(Len(failure) - 1) : At(failure, k) >= 2

=============================================================================
